---- MODULE Spec2Model ----
(***************************************************************************)
(* Iterative fallback scraper (scrapeWithFallback): three attempts, each   *)
(* in its own try/catch, over the collaborators RobotsFile, gotScraping,   *)
(* PlaywrightCrawler and the default Dataset.                              *)
(*                                                                         *)
(* The collaborators are third-party: every call returns or throws, chosen *)
(* nondeterministically the first time and replayed on later calls (a      *)
(* deterministic collaborator), recorded in env.  The default Dataset is   *)
(* the one store of the process: pushData adds an item, getData reads all  *)
(* of them.  The function never looks at the order of the stored items,    *)
(* which depends on how the request handlers interleave, so the store is   *)
(* kept up to order, as a bag.                                             *)
(***************************************************************************)
EXTENDS Integers, Sequences, FiniteSets, Bags, TLC

\* ---------------------------------------------------------------- bounds
MaxUrls == 6          \* longest sitemap the discovery collaborator returns
MaxShort == 2         \* short sitemaps and sites: every size up to this one
MaxOther == 1         \* leading URLs of a short sitemap that are no product pages
MaxSitePages == 10    \* product pages linked in a chain from the base URL
MaxBadId == 2         \* collaborators may fail on units numbered up to this
MaxCalls == 2         \* calls of scrapeWithFallback in one process
MaxParallel == 2      \* requests the crawler of attempt 3 runs at once

\* ---------------------------------------------------- program constants
SampleCap == 5            \* .slice(0, 5)
maxConcurrency == 3       \* PlaywrightCrawler of attempt 2
maxRequestsPerCrawl == 10 \* PlaywrightCrawler of attempt 3

VARIABLES
    validUrl,   \* baseUrl is a syntactically valid absolute URL
    limits,     \* the sizes of this run: calls, sitemap, site, retries
    call,       \* number of the current call of scrapeWithFallback (0: none yet)
    pc,         \* position inside scrapeWithFallback
    env,        \* outcomes the collaborators have given so far (replayed)
    urls,       \* const urls of the current attempt
    ids,        \* const ids of attempt 1
    results,    \* const results of attempt 1
    queue,      \* request queue of the current crawler
    inflight,   \* requests whose requestHandler is running
    handled,    \* requests the current crawler has started
    Dataset,    \* the default Dataset of the process
    origin,     \* history: the Dataset items with the call and attempt that pushed them
    attempts,   \* history: attempts started in this call, in order
    failed,     \* the "failed:" lines logged by the catch blocks of this call
    calls,      \* history: collaborator calls made in this call
    ret,        \* how the current call ended
    prev,       \* how the previous call ended
    input,        \* the Actor's input: the fields given and their values
    sessions,     \* the crawler's session pool
    requests,     \* the crawler's requests: retries, session, what happened
    successCount, \* let successCount of the API loop
    errorCount,   \* let errorCount of the API loop
    log,          \* the HTTP requests made so far, in order
    limitedIds,   \* const limitedIds of the API loop
    iter,         \* position of the API loop in its list
    retryCount    \* requests got-scraping has sent again for the current id

\* The state of the example Actors and loops, which scrapeWithFallback
\* does not touch.
actorVars == <<input, sessions, requests, successCount, errorCount, log,
               limitedIds, iter, retryCount>>

\* The same without the log of requests, which attempt 1 writes.
actorRest == <<input, sessions, requests, successCount, errorCount, limitedIds,
               iter, retryCount>>

vars == <<validUrl, limits, call, pc, env, urls, ids, results, queue, inflight,
          handled, Dataset, origin, attempts, failed, calls, ret, prev,
          actorVars>>

Min(a, b) == IF a < b THEN a ELSE b

\* ------------------------------------------------------------------ URLs
BaseUrl == [path |-> "base", id |-> 0]
ProductUrl(n) == [path |-> "products", id |-> n]
OtherUrl(n) == [path |-> "other", id |-> n]

\* A sitemap of n URLs whose first k are not product pages.
MkUrls(n, k) == [j \in 1..n |-> IF j <= k THEN OtherUrl(j) ELSE ProductUrl(j)]

\* Sitemaps: the short ones, and the ones that reach or pass the sample cap.
SitemapLists ==
    {MkUrls(n, k) : n \in 0..Min(MaxShort, limits.urls), k \in 0..MaxOther}
      \cup {MkUrls(n, 0) : n \in SampleCap..limits.urls}

\* Sites: a chain base -> /products/1 -> ... -> /products/n; short chains and
\* chains that reach or pass maxRequestsPerCrawl pages.
SiteSizes ==
    (0..Min(MaxShort, limits.pages)) \cup ((maxRequestsPerCrawl - 1)..limits.pages)

\* url.match(/\/products\/(\d+)/)?.[1] : the id, or undefined
Undefined == 0
MatchProductId(url) == IF url.path = "products" THEN url.id ELSE Undefined

SliceAll(seq, n) == seq
Slice(seq, n) == SubSeq(seq, 1, Min(Len(seq), n))

\* urls.map(match).filter(Boolean).slice(0, 5)
ExtractIds(us) ==
    Slice(SelectSeq([j \in 1..Len(us) |-> MatchProductId(us[j])],
                    LAMBDA x : x # Undefined), SampleCap)

\* A chain of every such size, and a site whose base page links to all of
\* its product pages.
Sites ==
    {[pages |-> n, fan |-> FALSE] : n \in SiteSizes}
      \cup {[pages |-> limits.pages, fan |-> TRUE]}

\* enqueueLinks({selector: 'a[href*="/products/"]'}) on a page of the site
Links(url, site) ==
    IF site.fan
      THEN IF url = BaseUrl THEN [j \in 1..site.pages |-> ProductUrl(j)]
           ELSE <<>>
      ELSE IF url.id < site.pages THEN <<ProductUrl(url.id + 1)>> ELSE <<>>

\* A request (API fetch, page render) for unit n may succeed or fail.
RequestOutcomes(n) == IF n <= MaxBadId THEN {"ok", "fail"} ELSE {"ok"}

\* ---------------------------------------------------------- collaborators
Collabs == {"discover1", "discover2", "probe", "fetch", "run2", "render2",
            "get2", "run3", "render3", "get3"}

NoCalls == [c \in Collabs |-> 0]

Known(key) == key \in DOMAIN env
\* The outcomes collaborator call `key` may give now.
Outcomes(key, all) == IF Known(key) THEN {env[key]} ELSE all
Record(key, o) == IF Known(key) THEN env ELSE env @@ (key :> o)
Count(c) == [calls EXCEPT ![c] = @ + 1]

\* Dataset.pushData(item)
pushDataDrop(store, item) == store
pushData(store, item) == store (+) SetToBag({item})

\* if (urls.length === 0) throw new Error('No URLs found in sitemap')
NoUrlsFoundNever(us) == FALSE
NoUrlsFoundOffByOne(us) == Len(us) <= 1
NoUrlsFound(us) == Len(us) = 0

\* ----------------------------------------------------------- control flow
NoRet == [kind |-> "none", method |-> "none", data |-> <<>>, from |-> <<>>,
          error |-> "none"]

AllFailed == "Unable to scrape site with any method"

FirstStep(k) == CASE k = 1 -> "a1_discover"
                  [] k = 2 -> "a2_discover"
                  [] OTHER -> "a3_run"

\* The try blocks follow each other in the text of the function.
NextAttemptSkip(k) == 3
NextAttemptSame(k) == k
NextAttempt(k) == k + 1

\* A return statement ends the call.
AfterReturnNever(k) == "idle"
AfterReturnFallthrough(k) == IF k < 3 THEN FirstStep(k + 1) ELSE "done"
AfterReturn(k) == "done"

\* throw new Error('Unable to scrape site with any method')
ThrownAtEndRethrow(lastError) == lastError
ThrownAtEnd(lastError) == AllFailed

ClearLocalsKeepResults ==
    /\ urls' = <<>> /\ ids' = <<>> /\ results' = results
    /\ queue' = <<>> /\ inflight' = {} /\ handled' = 0
ClearLocals ==
    /\ urls' = <<>> /\ ids' = <<>> /\ results' = <<>>
    /\ queue' = <<>> /\ inflight' = {} /\ handled' = 0

\* Every attempt is the body of a try whose catch swallows the error.
PropagatesLast(k) == k = 3
Propagates(k) == FALSE

\* catch (error) of attempt k: log it, go on with the text after the block.
Catch(k, err) ==
    /\ ClearLocals
    /\ IF Propagates(k)
         THEN /\ failed' = failed
              /\ attempts' = attempts
              /\ pc' = "done"
              /\ ret' = [NoRet EXCEPT !.kind = "throw", !.error = err]
         ELSE /\ failed' = Append(failed, [attempt |-> k, error |-> err])
              /\ IF k < 3
                   THEN /\ attempts' = Append(attempts, NextAttempt(k))
                        /\ pc' = FirstStep(NextAttempt(k))
                        /\ ret' = ret
                   ELSE /\ attempts' = attempts
                        /\ pc' = "done"
                        /\ ret' = [NoRet EXCEPT !.kind = "throw",
                                                !.error = ThrownAtEnd(err)]

\* return { method, data } in attempt k
ReturnExposing(k, method, data, from) ==
    /\ ret' = [NoRet EXCEPT !.kind = "return", !.method = method,
                            !.data = data, !.from = from,
                            !.error = IF failed = <<>> THEN "none"
                                      ELSE failed[1].error]
    /\ pc' = AfterReturn(k)
    /\ ClearLocals
    /\ attempts' = attempts
    /\ failed' = failed
Return(k, method, data, from) ==
    /\ ret' = [NoRet EXCEPT !.kind = "return", !.method = method,
                            !.data = data, !.from = from]
    /\ pc' = AfterReturn(k)
    /\ ClearLocals
    /\ attempts' = IF AfterReturn(k) = "done" THEN attempts
                   ELSE Append(attempts, k + 1)
    /\ failed' = failed

\* An input with no field given, and nothing of an Actor started.
NoInput == [given |-> {}]
ActorIdle ==
    /\ input = NoInput
    /\ sessions = <<>> /\ requests = <<>>
    /\ successCount = 0 /\ errorCount = 0
    /\ log = <<>>
    /\ limitedIds = <<>> /\ iter = 0 /\ retryCount = 0

InitWith(lim) ==
    /\ ActorIdle
    /\ validUrl \in BOOLEAN
    /\ limits = lim
    /\ call = 0 /\ pc = "idle"
    /\ env = << >>
    /\ urls = <<>> /\ ids = <<>> /\ results = <<>>
    /\ queue = <<>> /\ inflight = {} /\ handled = 0
    /\ Dataset = EmptyBag /\ origin = EmptyBag
    /\ attempts = <<>> /\ failed = <<>>
    /\ calls = NoCalls
    /\ ret = NoRet /\ prev = NoRet

\* One call of scrapeWithFallback, as main() makes it.
Init == InitWith([calls |-> 1, urls |-> MaxUrls, pages |-> MaxSitePages])

\* Several calls in one process, on short sitemaps and sites.
InitTwice == InitWith([calls |-> MaxCalls, urls |-> MaxShort, pages |-> MaxShort])

\* main(): await scrapeWithFallback(baseUrl)
scrapeWithFallback ==
    /\ pc \in {"idle", "done"}
    /\ call < limits.calls
    /\ call' = call + 1
    /\ pc' = FirstStep(1)
    /\ attempts' = <<1>>
    /\ failed' = <<>>
    /\ calls' = NoCalls
    /\ prev' = ret
    /\ ret' = NoRet
    /\ log' = <<>>
    /\ UNCHANGED <<actorRest, validUrl, limits, env, urls, ids, results, queue, inflight,
                   handled, Dataset, origin>>

\* ------------------------------------------------- Attempt 1: Sitemap + API
\* RobotsFile.find(baseUrl) then robots.parseUrlsFromSitemaps(): the list of
\* URLs, or an error; a malformed baseUrl makes it throw.
Thrown == [ok |-> FALSE, urls |-> <<>>]
DiscoveryOutcomes ==
    IF validUrl THEN {Thrown} \cup {[ok |-> TRUE, urls |-> l] : l \in SitemapLists}
                ELSE {Thrown}

Attempt1Discover ==
    /\ pc = "a1_discover"
    /\ \E o \in Outcomes(<<"discover", 1>>, DiscoveryOutcomes) :
        /\ env' = Record(<<"discover", 1>>, o)
        /\ calls' = Count("discover1")
        /\ IF ~o.ok THEN Catch(1, "DiscoveryError")
           ELSE IF NoUrlsFound(o.urls) THEN Catch(1, "No URLs found in sitemap")
           ELSE /\ urls' = o.urls
                /\ ids' = ExtractIds(o.urls)
                /\ pc' = "a1_probe"
                /\ UNCHANGED <<results, queue, inflight, handled, attempts,
                               failed, ret>>
    /\ UNCHANGED <<actorVars, validUrl, limits, call, Dataset, origin, prev>>

\* gotScraping({url: .../products/${ids[0]}, timeout}); when it succeeds the
\* for loop is entered, and with no ids the function returns at once.
\* ids[0], undefined when no URL gave an id
ProbeIdLast(is) == IF is = <<>> THEN Undefined ELSE is[Len(is)]
ProbeId(is) == IF is = <<>> THEN Undefined ELSE is[1]

Attempt1Probe ==
    /\ pc = "a1_probe"
    /\ \E o \in Outcomes(<<"probe", 1>>, {"ok", "fail"}) :
        /\ env' = Record(<<"probe", 1>>, o)
        /\ calls' = Count("probe")
        /\ log' = Append(log, [id |-> ProbeId(ids), what |-> "probe",
                               status |-> o])
        /\ IF o = "fail" THEN Catch(1, "ApiError")
           ELSE IF Len(ids) = 0
                  THEN Return(1, "sitemap-api", <<>>, EmptyBag)
                  ELSE /\ pc' = "a1_fetch"
                       /\ UNCHANGED <<urls, ids, results, queue, inflight,
                                      handled, attempts, failed, ret>>
    /\ UNCHANGED <<actorRest, validUrl, limits, call, Dataset, origin, prev>>

\* one iteration of: for (const id of ids) results.push((await gotScraping).body)
Attempt1Fetch ==
    /\ pc = "a1_fetch"
    /\ LET id == ids[Len(results) + 1] IN
       \E o \in Outcomes(<<"fetch", 1, id>>, RequestOutcomes(id)) :
        /\ env' = Record(<<"fetch", 1, id>>, o)
        /\ calls' = Count("fetch")
        /\ log' = Append(log, [id |-> id, what |-> "fetch", status |-> o])
        /\ IF o = "fail" THEN Catch(1, "ApiError")
           ELSE LET rs == Append(results, [id |-> id]) IN
                IF Len(rs) = Len(ids)
                  THEN Return(1, "sitemap-api", rs,
                              SetToBag({[item |-> rs[j], call |-> call, attempt |-> 1]
                                          : j \in 1..Len(rs)}))
                  ELSE /\ results' = rs
                       /\ UNCHANGED <<pc, urls, ids, queue, inflight, handled,
                                      attempts, failed, ret>>
    /\ UNCHANGED <<actorRest, validUrl, limits, call, Dataset, origin, prev>>

\* ------------------------------------------ Attempt 2: Sitemap + Playwright
Attempt2Discover ==
    /\ pc = "a2_discover"
    /\ \E o \in Outcomes(<<"discover", 2>>, DiscoveryOutcomes) :
        /\ env' = Record(<<"discover", 2>>, o)
        /\ calls' = Count("discover2")
        /\ IF ~o.ok THEN Catch(2, "DiscoveryError")
           ELSE IF NoUrlsFound(o.urls) THEN Catch(2, "No URLs found in sitemap")
           ELSE /\ urls' = o.urls
                /\ pc' = "a2_run"
                /\ UNCHANGED <<ids, results, queue, inflight, handled, attempts,
                               failed, ret>>
    /\ UNCHANGED <<actorVars, validUrl, limits, call, Dataset, origin, prev>>

\* await crawler.addRequests(urls.slice(0, 5)); crawler.run() is called
Attempt2Run ==
    /\ pc = "a2_run"
    /\ queue' = Slice(urls, SampleCap)
    /\ calls' = Count("run2")
    /\ pc' = "a2_crawl"
    /\ UNCHANGED <<actorVars, validUrl, limits, call, env, urls, ids, results, inflight,
                   handled, Dataset, origin, attempts, failed, ret, prev>>

\* The crawler takes the next request while fewer than maxConcurrency run.
Attempt2StartRequest ==
    /\ pc = "a2_crawl"
    /\ queue # <<>>
    /\ Cardinality(inflight) < maxConcurrency
    /\ inflight' = inflight \cup {Head(queue)}
    /\ queue' = Tail(queue)
    /\ handled' = handled + 1
    /\ UNCHANGED <<actorVars, validUrl, limits, call, pc, env, urls, ids, results, Dataset,
                   origin, attempts, failed, calls, ret, prev>>

\* requestHandler: page.evaluate, then Dataset.pushData({url, ...data})
Attempt2RequestHandler ==
    /\ pc = "a2_crawl"
    /\ \E u \in inflight :
       \E o \in Outcomes(<<"page", 2, u>>, RequestOutcomes(u.id)) :
        /\ env' = Record(<<"page", 2, u>>, o)
        /\ calls' = Count("render2")
        /\ inflight' = inflight \ {u}
        /\ IF o = "ok"
             THEN /\ Dataset' = pushData(Dataset, [url |-> u])
                  /\ origin' = pushData(origin, [item |-> [url |-> u],
                                                 call |-> call, attempt |-> 2])
             ELSE UNCHANGED <<Dataset, origin>>
    /\ UNCHANGED <<actorVars, validUrl, limits, call, pc, urls, ids, results, queue, handled,
                   attempts, failed, ret, prev>>

\* await crawler.run() settles once no request is left: none waiting and no
\* request handler still running.
RunSettledEarly(q, running) == q = <<>>
RunSettled(q, running) == q = <<>> /\ running = {}

Attempt2RunEnds ==
    /\ pc = "a2_crawl"
    /\ RunSettled(queue, inflight)
    /\ \E o \in Outcomes(<<"run", 2>>, {"ok", "throw"}) :
        /\ env' = Record(<<"run", 2>>, o)
        /\ IF o = "throw" THEN Catch(2, "CrawlerError")
           ELSE /\ pc' = "a2_get"
                /\ UNCHANGED <<urls, ids, results, queue, inflight, handled,
                               attempts, failed, ret>>
    /\ UNCHANGED <<actorVars, validUrl, limits, call, Dataset, origin, calls, prev>>

\* const results = await Dataset.getData(); return {method, data: results.items}
Attempt2GetData ==
    /\ pc = "a2_get"
    /\ \E o \in Outcomes(<<"get", 2>>, {"ok", "throw"}) :
        /\ env' = Record(<<"get", 2>>, o)
        /\ calls' = Count("get2")
        /\ IF o = "throw" THEN Catch(2, "DatasetError")
           ELSE Return(2, "sitemap-playwright", Dataset, origin)
    /\ UNCHANGED <<actorVars, validUrl, limits, call, Dataset, origin, prev>>

\* ------------------------------------------- Attempt 3: Playwright crawling
\* await crawler.run([baseUrl]): the base URL is the first request; a
\* malformed one is rejected.
Attempt3Run ==
    /\ pc = "a3_run"
    /\ calls' = Count("run3")
    /\ IF ~validUrl
         THEN /\ Catch(3, "CrawlerError")
              /\ env' = env
         ELSE \E n \in Outcomes(<<"site", 3>>, Sites) :
              /\ env' = Record(<<"site", 3>>, n)
              /\ queue' = <<BaseUrl>>
              /\ pc' = "a3_crawl"
              /\ UNCHANGED <<urls, ids, results, inflight, handled, attempts,
                             failed, ret>>
    /\ UNCHANGED <<actorVars, validUrl, limits, call, Dataset, origin, prev>>

\* The crawler takes the next request as long as fewer than
\* maxRequestsPerCrawl requests have been finished; it counts a request when
\* its handler is over, not when it starts.
Attempt3StartRequest ==
    /\ pc = "a3_crawl"
    /\ queue # <<>>
    /\ Cardinality(inflight) < MaxParallel
    /\ handled - Cardinality(inflight) < maxRequestsPerCrawl
    /\ inflight' = inflight \cup {Head(queue)}
    /\ queue' = Tail(queue)
    /\ handled' = handled + 1
    /\ UNCHANGED <<actorVars, validUrl, limits, call, pc, env, urls, ids, results, Dataset,
                   origin, attempts, failed, calls, ret, prev>>

\* requestHandler: page.evaluate, Dataset.pushData, enqueueLinks
Attempt3RequestHandler ==
    /\ pc = "a3_crawl"
    /\ \E u \in inflight :
       \E o \in Outcomes(<<"page", 3, u>>, RequestOutcomes(u.id)) :
        /\ env' = Record(<<"page", 3, u>>, o)
        /\ calls' = Count("render3")
        /\ inflight' = inflight \ {u}
        /\ IF o = "ok"
             THEN /\ Dataset' = pushData(Dataset, [url |-> u])
                  /\ origin' = pushData(origin, [item |-> [url |-> u],
                                                 call |-> call, attempt |-> 3])
                  /\ queue' = queue \o Links(u, env[<<"site", 3>>])
             ELSE UNCHANGED <<Dataset, origin, queue>>
    /\ UNCHANGED <<actorVars, validUrl, limits, call, pc, urls, ids, results, handled,
                   attempts, failed, ret, prev>>

\* await crawler.run([baseUrl]) settles once no request is left or allowed.
Attempt3RunEnds ==
    /\ pc = "a3_crawl"
    /\ inflight = {}
    /\ queue = <<>> \/ handled >= maxRequestsPerCrawl
    /\ \E o \in Outcomes(<<"run", 3>>, {"ok", "throw"}) :
        /\ env' = Record(<<"run", 3>>, o)
        /\ IF o = "throw" THEN Catch(3, "CrawlerError")
           ELSE /\ pc' = "a3_get"
                /\ UNCHANGED <<urls, ids, results, queue, inflight, handled,
                               attempts, failed, ret>>
    /\ UNCHANGED <<actorVars, validUrl, limits, call, Dataset, origin, calls, prev>>

Attempt3GetData ==
    /\ pc = "a3_get"
    /\ \E o \in Outcomes(<<"get", 3>>, {"ok", "throw"}) :
        /\ env' = Record(<<"get", 3>>, o)
        /\ calls' = Count("get3")
        /\ IF o = "throw" THEN Catch(3, "DatasetError")
           ELSE Return(3, "playwright-crawl", Dataset, origin)
    /\ UNCHANGED <<actorVars, validUrl, limits, call, Dataset, origin, prev>>

Next ==
    \/ scrapeWithFallback
    \/ Attempt1Discover
    \/ Attempt1Probe
    \/ Attempt1Fetch
    \/ Attempt2Discover
    \/ Attempt2Run
    \/ Attempt2StartRequest
    \/ Attempt2RequestHandler
    \/ Attempt2RunEnds
    \/ Attempt2GetData
    \/ Attempt3Run
    \/ Attempt3StartRequest
    \/ Attempt3RequestHandler
    \/ Attempt3RunEnds
    \/ Attempt3GetData

Spec == Init /\ [][Next]_vars

\* The same, every collaborator call returning or throwing in the end.
SpecFair == Init /\ [][Next]_vars /\ WF_vars(Next)

SpecTwice == InitTwice /\ [][Next]_vars

\* ------------------------------------------------------------ properties
AttemptErrors == {"DiscoveryError", "No URLs found in sitemap", "ApiError",
                  "CrawlerError", "DatasetError"}

IsEmpty(d) == DOMAIN d = {}
MethodAttempt(m) == CASE m = "sitemap-api" -> 1
                      [] m = "sitemap-playwright" -> 2
                      [] OTHER -> 3
AttemptAt(p) == CASE p \in {"a1_discover", "a1_probe", "a1_fetch"} -> 1
                  [] p \in {"a2_discover", "a2_run", "a2_crawl", "a2_get"} -> 2
                  [] OTHER -> 3
Running == pc \notin {"idle", "done"}
CallsOf(k) == CASE k = 1 -> calls["discover1"] + calls["probe"] + calls["fetch"]
                [] k = 2 -> calls["discover2"] + calls["run2"] + calls["render2"]
                              + calls["get2"]
                [] OTHER -> calls["run3"] + calls["render3"] + calls["get3"]
Discovered(k) == env[<<"discover", k>>]

\* C1: the attempts are started in the order 1 (sitemap+API), 2 (sitemap+
\* Playwright), 3 (full crawl), whatever the collaborators answer: the k-th
\* attempt started is attempt k, it is started only after attempts 1..k-1
\* have each been started and have failed, and no collaborator of an attempt
\* is called before that attempt was started.
C1_FixedOrder ==
    /\ \A j \in 1..Len(attempts) : attempts[j] = j
    /\ Len(attempts) >= 1 => Len(failed) >= Len(attempts) - 1
    /\ \A j \in 1..Len(failed) : failed[j].attempt = j
    /\ Running => AttemptAt(pc) = attempts[Len(attempts)]
    /\ \A k \in 1..3 : CallsOf(k) > 0 =>
          /\ k \in {attempts[j] : j \in 1..Len(attempts)}
          /\ Len(failed) >= k - 1

C1_Witness ==
    /\ pc = "a3_crawl" /\ attempts = <<1, 2, 3>> /\ Len(failed) = 2
    /\ calls["render2"] > 0

\* C2: when attempt 1 returns, the call is over: the result is exactly the
\* API records of the sampled ids, only attempt 1 was started, and no second
\* sitemap discovery, crawler run, page render or Dataset read was made; and
\* whenever discovery, probe and every sampled fetch succeed, attempt 1 returns.
FirstSucceeds ==
    /\ Known(<<"discover", 1>>) /\ Discovered(1).ok /\ Discovered(1).urls # <<>>
    /\ Known(<<"probe", 1>>) /\ env[<<"probe", 1>>] = "ok"
    /\ LET s == ExtractIds(Discovered(1).urls) IN
       \A j \in 1..Len(s) : /\ Known(<<"fetch", 1, s[j]>>)
                            /\ env[<<"fetch", 1, s[j]>>] = "ok"

C2_FirstSuccessTerminal ==
    /\ (ret.kind = "return" /\ ret.method = "sitemap-api") =>
          /\ pc = "done"
          /\ attempts = <<1>> /\ failed = <<>>
          /\ CallsOf(2) = 0 /\ CallsOf(3) = 0
          /\ calls["discover1"] = 1
          /\ LET s == ExtractIds(Discovered(1).urls) IN
             ret.data = [j \in 1..Len(s) |-> [id |-> s[j]]]
    /\ (pc = "done" /\ FirstSucceeds) =>
          (ret.kind = "return" /\ ret.method = "sitemap-api")

C2_Witness ==
    /\ pc = "done" /\ ret.kind = "return" /\ ret.method = "sitemap-api"
    /\ Len(ret.data) = SampleCap /\ calls["fetch"] = SampleCap

\* C3 (as claimed): a successful result always has at least one item.
C3_SuccessHasItems ==
    ret.kind = "return" => ~IsEmpty(ret.data)

C6_ItemsFromNamedStrategy ==
    ret.kind = "return" =>
        \A e \in BagToSet(ret.from) :
            e.call = call /\ e.attempt = MethodAttempt(ret.method)

\* C7 (as claimed): a second call with the same base URL and the same
\* collaborator answers ends as the first one did: same method, same number
\* of items, same items.
C7_Idempotent ==
    (call >= 2 /\ pc = "done") =>
        /\ ret.kind = prev.kind
        /\ ret.method = prev.method
        /\ ret.data = prev.data

\* C8 (as claimed): an attempt whose discovery gave no unit (no sitemap URL,
\* or no product id among the URLs) issues no extraction request.
C8_NoExtractionWithoutUnits ==
    /\ (calls["discover1"] > 0 /\ IsEmpty(ExtractIds(Discovered(1).urls))) =>
          (calls["probe"] = 0 /\ calls["fetch"] = 0)
    /\ (calls["discover2"] > 0 /\ IsEmpty(Discovered(2).urls)) =>
          (calls["run2"] = 0 /\ calls["render2"] = 0)

\* C9: in one call every attempt is started at most once and never again
\* after a later one was started, and each attempt makes each of its
\* collaborator calls at most once (one discovery, one probe, one fetch per
\* sampled id, one crawler run, one Dataset read).
C9_OneAttemptEach ==
    /\ \A j1, j2 \in 1..Len(attempts) : j1 < j2 => attempts[j1] < attempts[j2]
    /\ \A j1, j2 \in 1..Len(failed) : j1 < j2 => failed[j1].attempt < failed[j2].attempt
    /\ \A c \in {"discover1", "discover2", "probe", "run2", "get2", "run3", "get3"} :
          calls[c] <= 1
    /\ calls["fetch"] <= SampleCap
    /\ calls["render2"] <= SampleCap

C9_Witness ==
    /\ pc = "done" /\ ret.kind = "return" /\ ret.method = "playwright-crawl"
    /\ attempts = <<1, 2, 3>>
    /\ failed[1].error = "ApiError" /\ calls["fetch"] = 2
    /\ failed[2].error = "DatasetError"

\* C10 (as claimed): for a malformed base URL no attempt is started and no
\* collaborator is called.
C10_InvalidTargetFailsFast ==
    ~validUrl => (attempts = <<>> /\ \A c \in Collabs : calls[c] = 0)

\* The items a crawler of attempt k has stored for the pages it rendered.
Rendered(k, u) == Known(<<"page", k, u>>) /\ env[<<"page", k, u>>] = "ok"
Ok(key) == Known(key) /\ env[key] = "ok"
EmptySitemap == [ok |-> TRUE, urls |-> <<>>]
NoUrlsLine(k) == [attempt |-> k, error |-> "No URLs found in sitemap"]

\* C11: when both sitemap discoveries return an empty list (and the crawler
\* run and the Dataset read of the crawl succeed), attempts 1 and 2 fail with
\* 'No URLs found in sitemap' without any API or render request, and the call
\* returns method playwright-crawl with exactly one item per page the crawl
\* rendered.
C11_EmptySitemapFullCrawl ==
    (/\ pc = "done"
     /\ Known(<<"discover", 1>>) /\ Discovered(1) = EmptySitemap
     /\ Known(<<"discover", 2>>) /\ Discovered(2) = EmptySitemap
     /\ Ok(<<"run", 3>>) /\ Ok(<<"get", 3>>))
    => /\ failed = <<NoUrlsLine(1), NoUrlsLine(2)>>
       /\ calls["probe"] = 0 /\ calls["fetch"] = 0
       /\ calls["run2"] = 0 /\ calls["render2"] = 0
       /\ ret.kind = "return" /\ ret.method = "playwright-crawl"
       /\ BagToSet(ret.data) =
            {[url |-> u] : u \in {v \in {BaseUrl} \cup {ProductUrl(n) : n \in 1..MaxSitePages}
                                    : Rendered(3, v)}}
       /\ \A i \in BagToSet(ret.data) : CopiesIn(i, ret.data) = 1

C11_Witness ==
    /\ pc = "done" /\ ret.kind = "return" /\ ret.method = "playwright-crawl"
    /\ Discovered(1) = EmptySitemap /\ Discovered(2) = EmptySitemap
    /\ BagCardinality(ret.data) = 3

\* The case of C12: the sitemap is not empty, the API probe fails, attempt 2
\* discovers the same URLs, and its crawler run and Dataset read succeed.
ProbeFailedRenderRuns ==
    /\ pc = "done"
    /\ Known(<<"discover", 1>>) /\ Discovered(1).ok /\ Discovered(1).urls # <<>>
    /\ Known(<<"probe", 1>>) /\ env[<<"probe", 1>>] = "fail"
    /\ Known(<<"discover", 2>>) /\ Discovered(2) = Discovered(1)
    /\ Ok(<<"run", 2>>) /\ Ok(<<"get", 2>>)

\* C12 (as claimed): in that case, when every page renders, the result is
\* sitemap-playwright with one item per discovered URL.
C12_OneItemPerUrl ==
    (/\ ProbeFailedRenderRuns
     /\ \A j \in 1..Len(Discovered(2).urls) :
           Known(<<"page", 2, Discovered(2).urls[j]>>) =>
               Rendered(2, Discovered(2).urls[j]))
    => /\ ret.kind = "return" /\ ret.method = "sitemap-playwright"
       /\ BagCardinality(ret.data) = Len(Discovered(1).urls)

\* C12 (amended): in that case the result is sitemap-playwright with exactly
\* one item per URL among the first 5 discovered URLs whose page rendered; the
\* sixth and later URLs are not requested.
C12_OneItemPerSampledUrl ==
    ProbeFailedRenderRuns
    => /\ ret.kind = "return" /\ ret.method = "sitemap-playwright"
       /\ failed = <<[attempt |-> 1, error |-> "ApiError"]>>
       /\ LET us == Discovered(2).urls IN
          /\ \A j \in 1..Len(us) :
                /\ j > 5 => ~Known(<<"page", 2, us[j]>>)
                /\ j <= 5 => Known(<<"page", 2, us[j]>>)
                /\ CopiesIn([url |-> us[j]], ret.data) =
                      IF j <= 5 /\ Rendered(2, us[j]) THEN 1 ELSE 0
          /\ BagToSet(ret.data) \subseteq {[url |-> us[j]] : j \in 1..Len(us)}

C12_Witness ==
    /\ ProbeFailedRenderRuns
    /\ Len(Discovered(1).urls) = 5
    /\ BagCardinality(ret.data) = 5

\* C13: when attempt 1 fails because its discovery is empty and attempt 2
\* succeeds, the result is attempt 2's: method sitemap-playwright, the items
\* its request handlers pushed, and nothing of attempt 1's failure, which is
\* only a logged line.
C13_SecondResultHidesFirstFailure ==
    (/\ pc = "done"
     /\ Known(<<"discover", 1>>) /\ Discovered(1) = EmptySitemap
     /\ Known(<<"discover", 2>>) /\ Discovered(2).ok
     /\ Discovered(2).urls # <<>>
     /\ Ok(<<"run", 2>>) /\ Ok(<<"get", 2>>))
    => /\ ret.kind = "return" /\ ret.method = "sitemap-playwright"
       /\ ret.error = "none"
       /\ failed = <<NoUrlsLine(1)>>
       /\ ret.data = Dataset
       /\ \A e \in BagToSet(ret.from) : e.attempt = 2 /\ e.call = call
       /\ \A i \in BagToSet(ret.data) :
             CopiesIn(i, ret.data) = 1 /\ Rendered(2, i.url)

C13_Witness ==
    /\ pc = "done" /\ ret.kind = "return" /\ ret.method = "sitemap-playwright"
    /\ Discovered(1) = EmptySitemap
    /\ BagCardinality(ret.data) = 2

\* C14: a sitemap of exactly one URL is not an empty one: the attempt does
\* not fail with 'No URLs found in sitemap' and goes on to its extraction
\* with that one URL (attempt 1: the probe, and a fetch of its id; attempt 2:
\* one crawler run that renders it), the slice to 5 leaving it as it is.
C14_SingleUrlNotEmpty ==
    /\ (calls["discover1"] > 0 /\ Len(Discovered(1).urls) = 1) =>
          /\ Len(failed) >= 1 => failed[1].error # "No URLs found in sitemap"
          /\ pc = "a1_probe" =>
                /\ urls = Discovered(1).urls
                /\ ids = SelectSeq(<<MatchProductId(urls[1])>>,
                                   LAMBDA x : x # Undefined)
          /\ pc # "a1_probe" => calls["probe"] = 1
          /\ (ret.kind = "return" /\ ret.method = "sitemap-api"
                /\ Discovered(1).urls[1].path = "products") =>
                ret.data = <<[id |-> Discovered(1).urls[1].id]>>
    /\ (calls["discover2"] > 0 /\ Len(Discovered(2).urls) = 1) =>
          /\ Len(failed) >= 2 => failed[2].error # "No URLs found in sitemap"
          /\ pc = "a2_crawl" /\ handled = 0 => queue = Discovered(2).urls
          /\ pc # "a2_run" => calls["run2"] = 1
          /\ pc \notin {"a2_run", "a2_crawl"} => calls["render2"] = 1

C14_Witness ==
    /\ pc = "done" /\ ret.kind = "return" /\ ret.method = "sitemap-playwright"
    /\ Len(Discovered(1).urls) = 1 /\ Len(Discovered(2).urls) = 1
    /\ calls["probe"] = 1 /\ calls["fetch"] = 1 /\ calls["render2"] = 1
    /\ BagCardinality(ret.data) = 1

\* C15 (as claimed): the attempts run one after the other and share no
\* mutable state: while an attempt runs, no request handler of an earlier
\* attempt is still running, and the Dataset it will read holds nothing that
\* an earlier attempt of this call has pushed.
C15_AttemptsIsolated ==
    Running =>
        /\ pc \notin {"a2_crawl", "a3_crawl"} => inflight = {}
        /\ \A e \in BagToSet(origin) :
              e.call = call => e.attempt = AttemptAt(pc)

\* ====================================================================
\* apify/examples/anti-blocking/src/main.ts
\* ====================================================================
MaxStartUrls == 2        \* startUrls of the input
MaxInvocations == 4      \* handler invocations that a run can need

antiBlockingMaxConcurrency == 3
maxErrorScore == 3

\* The variables of scrapeWithFallback that the Actors leave alone.
fallbackVars == <<validUrl, limits, call, results, handled, origin, attempts,
                  failed, calls, ret, prev>>
FallbackIdle ==
    /\ validUrl = TRUE
    /\ call = 0 /\ results = <<>> /\ handled = 0
    /\ origin = EmptyBag
    /\ attempts = <<>> /\ failed = <<>>
    /\ calls = NoCalls
    /\ ret = NoRet /\ prev = NoRet

\* document.body.textContent.toLowerCase(), as the set of the phrases that
\* the check looks for and that it includes
BlockMarkers == {"access denied", "cloudflare", "captcha", "bot"}
PageTexts == {{}} \cup {{m} : m \in BlockMarkers} \cup {BlockMarkers}

\* text.includes('access denied') || ... || text.includes('bot')
isBlocked(text) == \E m \in BlockMarkers : m \in text

\* What one invocation of requestHandler meets: the selector never shows
\* up, or the page has a text and then nothing, page.evaluate or
\* Dataset.pushData fails.
HandlerRuns ==
    {[text |-> {}, fails |-> "waitForSelector"]}
        \cup {[text |-> t, fails |-> "none"] : t \in PageTexts}
        \cup {[text |-> {}, fails |-> f] : f \in {"evaluate", "pushData"}}

\* requestHandler: the calls it makes on the session and the Dataset, and
\* how it ends, in the order of the code
requestHandlerBlockedSaves(run) ==
    IF run.fails = "waitForSelector" THEN <<"markBad", "throw">>
    ELSE IF run.fails = "evaluate" THEN <<"markBad", "throw">>
    ELSE IF run.fails = "pushData" THEN <<"pushDataFails", "markBad", "throw">>
    ELSE IF isBlocked(run.text) THEN <<"retire", "pushData", "markGood">>
    ELSE <<"pushData", "markGood">>
requestHandlerNoRetire(run) ==
    IF run.fails = "waitForSelector" THEN <<"markBad", "throw">>
    ELSE IF isBlocked(run.text) THEN <<"markBad", "throw">>
    ELSE IF run.fails = "evaluate" THEN <<"markBad", "throw">>
    ELSE IF run.fails = "pushData" THEN <<"pushDataFails", "markBad", "throw">>
    ELSE <<"pushData", "markGood">>
requestHandlerBlockedUnmarked(run) ==
    IF run.fails = "waitForSelector" THEN <<"markBad", "throw">>
    ELSE IF isBlocked(run.text) THEN <<"retire", "throw">>
    ELSE IF run.fails = "evaluate" THEN <<"markBad", "throw">>
    ELSE IF run.fails = "pushData" THEN <<"pushDataFails", "markBad", "throw">>
    ELSE <<"pushData", "markGood">>
requestHandler(run) ==
    IF run.fails = "waitForSelector" THEN <<"markBad", "throw">>
    ELSE IF isBlocked(run.text) THEN <<"retire", "markBad", "throw">>
    ELSE IF run.fails = "evaluate" THEN <<"markBad", "throw">>
    ELSE IF run.fails = "pushData" THEN <<"pushDataFails", "markBad", "throw">>
    ELSE <<"pushData", "markGood">>

Has(evs, e) == \E j \in 1..Len(evs) : evs[j] = e

\* Session: retire(), markBad() and markGood(); the error score is kept in
\* halves, markGood taking half a point off.
NewSession == [retired |-> FALSE, errorScore |-> 0]
SessionCall(s, e) ==
    CASE e = "retire" -> [s EXCEPT !.retired = TRUE]
      [] e = "markBad" -> [s EXCEPT !.errorScore = @ + 2]
      [] e = "markGood" -> [s EXCEPT !.errorScore = IF @ > 0 THEN @ - 1 ELSE 0]
      [] OTHER -> s
RECURSIVE SessionCalls(_, _)
SessionCalls(s, evs) ==
    IF evs = <<>> THEN s
    ELSE SessionCalls(SessionCall(s, Head(evs)), Tail(evs))

\* The pool hands out a session that is not retired and whose error score
\* is below maxErrorScore, an existing one or a new one.
isUsable(s) == ~s.retired /\ s.errorScore < 2 * maxErrorScore
SessionsToUse ==
    {k \in 1..Len(sessions) : isUsable(sessions[k])} \cup {Len(sessions) + 1}

StartUrlLists == {MkUrls(n, 0) : n \in 0..MaxStartUrls}
AntiBlockingInputs ==
    {NoInput} \cup {[given |-> {"startUrls"}, startUrls |-> l] : l \in StartUrlLists}

\* The input and the crawler's maxRequestRetries, which the source leaves
\* to the library: the runs that need at most MaxInvocations invocations.
AntiBlockingRuns ==
    {c \in AntiBlockingInputs \X (0..MaxInvocations) :
        IF "startUrls" \in c[1].given /\ c[1].startUrls # <<>>
          THEN Len(c[1].startUrls) * (c[2] + 1) <= MaxInvocations
          ELSE c[2] = 0}

InitAntiBlocking ==
    /\ FallbackIdle
    /\ pc = "ab_main"
    /\ \E c \in AntiBlockingRuns :
          input = c[1] /\ limits = [maxRequestRetries |-> c[2]]
    /\ sessions = <<>> /\ requests = <<>>
    /\ Dataset = EmptyBag
    /\ env = << >> /\ urls = <<>> /\ ids = <<>>
    /\ queue = <<>> /\ inflight = {}
    /\ successCount = 0 /\ errorCount = 0 /\ log = <<>>
    /\ limitedIds = <<>> /\ iter = 0 /\ retryCount = 0

antiBlockingUnused == <<fallbackVars, env, urls, ids, queue, inflight,
                        successCount, errorCount, log, limitedIds, iter,
                        retryCount>>

\* Actor.main: the input is read and checked, the proxy configuration is
\* made (or refused), the start URLs are added and crawler.run() is called.
AntiBlockingMain ==
    /\ pc = "ab_main"
    /\ \E proxy \in {"ok", "throw"} :
       IF "startUrls" \notin input.given \/ proxy = "throw"
         THEN /\ pc' = "ab_thrown"
              /\ requests' = requests
         ELSE /\ pc' = "ab_crawl"
              /\ requests' = [j \in 1..Len(input.startUrls) |->
                                [url |-> input.startUrls[j], retryCount |-> 0,
                                 state |-> "queued", session |-> 0,
                                 runs |-> <<>>]]
    /\ UNCHANGED <<input, sessions, Dataset, antiBlockingUnused>>

\* The crawler takes a waiting request, with a session of the pool.
AntiBlockingStartRequest ==
    /\ pc = "ab_crawl"
    /\ Cardinality({j \in DOMAIN requests : requests[j].state = "running"})
          < antiBlockingMaxConcurrency
    /\ \E r \in DOMAIN requests : \E s \in SessionsToUse :
        /\ requests[r].state = "queued"
        /\ sessions' = IF s > Len(sessions) THEN Append(sessions, NewSession)
                       ELSE sessions
        /\ requests' = [requests EXCEPT ![r].state = "running",
                                        ![r].session = s]
    /\ UNCHANGED <<pc, input, Dataset, antiBlockingUnused>>

\* One invocation of requestHandler; when it throws the crawler queues the
\* request again, or gives it up once its retries are used.
AntiBlockingRequestHandler ==
    /\ pc = "ab_crawl"
    /\ \E r \in DOMAIN requests : \E run \in HandlerRuns :
       LET s == requests[r].session
           evs == requestHandler(run) IN
        /\ requests[r].state = "running"
        /\ sessions' = [sessions EXCEPT ![s] = SessionCalls(@, evs)]
        /\ Dataset' = IF Has(evs, "pushData")
                        THEN pushData(Dataset, [url |-> requests[r].url,
                                                sessionId |-> s])
                        ELSE Dataset
        /\ requests' =
             [requests EXCEPT
                ![r].runs = Append(@, [session |-> s,
                                       blocked |-> run.fails = "none"
                                                     /\ isBlocked(run.text),
                                       did |-> evs]),
                ![r].state = IF ~Has(evs, "throw") THEN "done"
                             ELSE IF requests[r].retryCount < limits.maxRequestRetries
                                    THEN "queued" ELSE "failing",
                ![r].retryCount = IF Has(evs, "throw")
                                     /\ @ < limits.maxRequestRetries
                                    THEN @ + 1 ELSE @]
    /\ UNCHANGED <<pc, input, antiBlockingUnused>>

\* failedRequestHandler: session?.retire()
AntiBlockingFailedRequestHandler ==
    /\ pc = "ab_crawl"
    /\ \E r \in DOMAIN requests :
        /\ requests[r].state = "failing"
        /\ sessions' = [sessions EXCEPT ![requests[r].session] =
                                            SessionCall(@, "retire")]
        /\ requests' = [requests EXCEPT ![r].state = "failed"]
    /\ UNCHANGED <<pc, input, Dataset, antiBlockingUnused>>

\* await crawler.run() settles when every request is handled or given up.
AntiBlockingRunEnds ==
    /\ pc = "ab_crawl"
    /\ \A r \in DOMAIN requests : requests[r].state \in {"done", "failed"}
    /\ pc' = "ab_done"
    /\ UNCHANGED <<input, sessions, requests, Dataset, antiBlockingUnused>>

NextAntiBlocking ==
    \/ AntiBlockingMain
    \/ AntiBlockingStartRequest
    \/ AntiBlockingRequestHandler
    \/ AntiBlockingFailedRequestHandler
    \/ AntiBlockingRunEnds

SpecAntiBlocking == InitAntiBlocking /\ [][NextAntiBlocking]_vars

\* Position of the first e among the calls evs (0: none).
FirstAt(evs, e) ==
    IF Has(evs, e) THEN CHOOSE j \in 1..Len(evs) :
                            evs[j] = e /\ \A i \in 1..(j - 1) : evs[i] # e
    ELSE 0
Invocations == {<<r, j>> : r \in DOMAIN requests, j \in 1..MaxInvocations}
RunOf(v) == requests[v[1]].runs[v[2]]
Ran(v) == v[1] \in DOMAIN requests /\ v[2] <= Len(requests[v[1]].runs)

\* C16: a handler invocation whose blocking check returned true never
\* pushes to the Dataset: every invocation that called Dataset.pushData had
\* the check return false, and the Dataset holds exactly one record for each
\* invocation that passed the check and pushed.
C16_BlockedNeverSaved ==
    /\ \A v \in Invocations :
          (Ran(v) /\ RunOf(v).blocked) =>
              ~Has(RunOf(v).did, "pushData") /\ ~Has(RunOf(v).did, "pushDataFails")
    /\ BagCardinality(Dataset) =
          Cardinality({v \in Invocations :
                          Ran(v) /\ ~RunOf(v).blocked
                                 /\ Has(RunOf(v).did, "pushData")})
    /\ \A i \in BagToSet(Dataset) :
          \E v \in Invocations :
              /\ Ran(v) /\ ~RunOf(v).blocked
              /\ i = [url |-> requests[v[1]].url, sessionId |-> RunOf(v).session]

C16_Witness ==
    /\ pc = "ab_done"
    /\ \E r \in DOMAIN requests :
          /\ Len(requests[r].runs) = 2
          /\ requests[r].runs[1].blocked
          /\ requests[r].state = "done"
    /\ BagCardinality(Dataset) = 1

\* C17: a blocked invocation retires its session before it throws, and the
\* next invocation for the same request runs with another session; a
\* request given up after its retries has had the session of its last
\* invocation retired by failedRequestHandler.
C17_BlockedSessionRetired ==
    /\ \A v \in Invocations :
          (Ran(v) /\ RunOf(v).blocked) =>
              /\ Has(RunOf(v).did, "retire") /\ Has(RunOf(v).did, "throw")
              /\ FirstAt(RunOf(v).did, "retire") < FirstAt(RunOf(v).did, "throw")
              /\ sessions[RunOf(v).session].retired
              /\ Ran(<<v[1], v[2] + 1>>) =>
                    RunOf(<<v[1], v[2] + 1>>).session # RunOf(v).session
              /\ requests[v[1]].state = "running" /\ v[2] = Len(requests[v[1]].runs)
                    => requests[v[1]].session # RunOf(v).session
    /\ \A r \in DOMAIN requests :
          requests[r].state = "failed" =>
              /\ Len(requests[r].runs) = limits.maxRequestRetries + 1
              /\ requests[r].session = requests[r].runs[Len(requests[r].runs)].session
              /\ sessions[requests[r].session].retired

C17_Witness ==
    /\ pc = "ab_done"
    /\ \E r \in DOMAIN requests :
          /\ requests[r].state = "failed"
          /\ requests[r].runs[1].blocked
          /\ Len(requests[r].runs) = 3
          /\ ~requests[r].runs[3].blocked
          /\ sessions[requests[r].session].retired

\* ====================================================================
\* apify/examples/hybrid-api/src/main.ts
\* ====================================================================
MaxSitemap == 3      \* URLs of the sitemap the Actors read
MaxItems == 3        \* largest maxItems of an input

ItemUrl(n) == [path |-> "items", id |-> n]

\* The sitemaps the Actors read: product pages after pages of other kinds,
\* one with a page listed twice, one of pages under /items/.
ActorSitemaps ==
    {MkUrls(n, k) : n \in 0..MaxSitemap, k \in 0..MaxOther}
        \cup {<<ProductUrl(1), ProductUrl(1)>>, <<ItemUrl(1), ProductUrl(2)>>}

\* input.idPattern || '/products/([^/]+)', by the path it looks for
idPatternOf(inp) ==
    IF "idPattern" \in inp.given THEN inp.idPattern ELSE "products"

\* url.match(idPattern): match[1] or nothing
MatchId(url, pattern) == IF url.path = pattern THEN url.id ELSE Undefined

\* for (const url of urls) { if (match && match[1]) ids.push(match[1]) }
IdsOf(us, pattern) ==
    SelectSeq([j \in 1..Len(us) |-> MatchId(us[j], pattern)],
              LAMBDA x : x # Undefined)

\* input.maxItems ? ids.slice(0, input.maxItems) : ids
LimitIds(inp, is) ==
    IF "maxItems" \in inp.given /\ inp.maxItems # 0
      THEN Slice(is, inp.maxItems) ELSE is

\* The loop after an iteration that ended in the catch block.
AfterCatchBreak(i, n) == n + 1
AfterCatch(i, n) == i + 1

HybridApiInputs ==
    {NoInput, [given |-> {"sitemapUrl"}], [given |-> {"apiBaseUrl"}],
     [given |-> {"sitemapUrl", "apiBaseUrl"}],
     [given |-> {"sitemapUrl", "apiBaseUrl", "idPattern"}, idPattern |-> "items"]}
        \cup {[given |-> {"sitemapUrl", "apiBaseUrl", "maxItems"}, maxItems |-> m]
                : m \in 0..MaxItems}

InitHybridApi ==
    /\ FallbackIdle
    /\ limits = [calls |-> 0]
    /\ pc = "ha_main"
    /\ input \in HybridApiInputs
    /\ sessions = <<>> /\ requests = <<>>
    /\ Dataset = EmptyBag
    /\ env = << >> /\ urls = <<>> /\ ids = <<>>
    /\ queue = <<>> /\ inflight = {}
    /\ successCount = 0 /\ errorCount = 0 /\ log = <<>>
    /\ limitedIds = <<>> /\ iter = 0 /\ retryCount = 0

hybridApiUnused == <<fallbackVars, env, queue, inflight, sessions, requests,
                     retryCount>>

\* Actor.main: the input is read and checked.
HybridApiMain ==
    /\ pc = "ha_main"
    /\ pc' = IF {"sitemapUrl", "apiBaseUrl"} \subseteq input.given
               THEN "ha_sitemap" ELSE "ha_thrown"
    /\ UNCHANGED <<input, urls, ids, limitedIds, iter, successCount, errorCount,
                   log, Dataset, hybridApiUnused>>

\* Steps 1 and 2: the sitemap is read (or the read fails), the IDs are
\* extracted and limited, the counters are set to 0.
HybridApiSitemap ==
    /\ pc = "ha_sitemap"
    /\ \E o \in {Thrown} \cup {[ok |-> TRUE, urls |-> l] : l \in ActorSitemaps} :
       IF ~o.ok
         THEN /\ pc' = "ha_thrown"
              /\ UNCHANGED <<urls, ids, limitedIds, iter>>
         ELSE /\ urls' = o.urls
              /\ ids' = IdsOf(o.urls, idPatternOf(input))
              /\ limitedIds' = LimitIds(input, ids')
              /\ iter' = 1
              /\ pc' = "ha_fetch"
    /\ successCount' = 0 /\ errorCount' = 0
    /\ UNCHANGED <<input, log, Dataset, hybridApiUnused>>

\* One iteration of for (const id of limitedIds): the API request, then
\* Dataset.pushData and successCount++, or the catch block and errorCount++.
HybridApiFetch ==
    /\ pc = "ha_fetch"
    /\ iter <= Len(limitedIds)
    /\ LET id == limitedIds[iter] IN
       \E o \in {"ok", "requestFails", "pushDataFails"} :
        /\ log' = Append(log, [id |-> id,
                               answer |-> IF o = "requestFails" THEN "error"
                                          ELSE "ok"])
        /\ IF o = "ok"
             THEN /\ Dataset' = pushData(Dataset, [id |-> id])
                  /\ successCount' = successCount + 1
                  /\ iter' = iter + 1
                  /\ UNCHANGED errorCount
             ELSE /\ errorCount' = errorCount + 1
                  /\ iter' = AfterCatch(iter, Len(limitedIds))
                  /\ UNCHANGED <<Dataset, successCount>>
    /\ UNCHANGED <<pc, input, urls, ids, limitedIds, hybridApiUnused>>

\* The loop is over: the counts are logged.
HybridApiCompleted ==
    /\ pc = "ha_fetch"
    /\ iter > Len(limitedIds)
    /\ pc' = "ha_done"
    /\ UNCHANGED <<input, urls, ids, limitedIds, iter, successCount, errorCount,
                   log, Dataset, hybridApiUnused>>

NextHybridApi ==
    \/ HybridApiMain
    \/ HybridApiSitemap
    \/ HybridApiFetch
    \/ HybridApiCompleted

SpecHybridApi == InitHybridApi /\ [][NextHybridApi]_vars

\* C18: the API requests made so far are those for the first IDs of
\* limitedIds, one each and in the order of the list, whatever failed; the
\* Dataset holds successCount records; and at completion every ID has been
\* requested and successCount + errorCount is the length of limitedIds.
C18_EveryIdFetchedOnce ==
    pc \in {"ha_fetch", "ha_done"} =>
        /\ Len(log) <= Len(limitedIds)
        /\ \A j \in 1..Len(log) : log[j].id = limitedIds[j]
        /\ successCount + errorCount = Len(log)
        /\ BagCardinality(Dataset) = successCount
        /\ errorCount >= Cardinality({j \in 1..Len(log) : log[j].answer = "error"})
        /\ pc = "ha_done" =>
              /\ Len(log) = Len(limitedIds)
              /\ successCount + errorCount = Len(limitedIds)

C18_Witness ==
    /\ pc = "ha_done"
    /\ Len(limitedIds) = 3
    /\ log[1].answer = "error"
    /\ successCount = 1 /\ errorCount = 2
    /\ BagCardinality(Dataset) = 1

\* C25 (as claimed): when maxItems is given, 0 included, at most maxItems
\* ids are processed and at most maxItems API requests are made; when it is
\* not given every extracted id is processed.
C25_AtMostMaxItems ==
    pc \in {"ha_fetch", "ha_done"} =>
        IF "maxItems" \in input.given
          THEN /\ Len(limitedIds) <= input.maxItems
               /\ Len(log) <= input.maxItems
          ELSE /\ limitedIds = ids
               /\ pc = "ha_done" => Len(log) = Len(ids)

\* ====================================================================
\* apify/examples/basic-scraper/src/main.ts
\* ====================================================================
MaxRetries == 1      \* largest maxRequestRetries of the basic scraper's crawler

basicScraperMaxConcurrency == 5

\* new RegExp(input.urlPattern).test(url), by the path the pattern names;
\* the empty pattern matches every URL
TestUrl(pattern, url) == pattern = "" \/ url.path = pattern

\* if (input.urlPattern) urls = urls.filter((url) => pattern.test(url))
FilterUrls(inp, us) ==
    IF "urlPattern" \in inp.given /\ inp.urlPattern # ""
      THEN SelectSeq(us, LAMBDA u : TestUrl(inp.urlPattern, u))
      ELSE us

\* if (input.maxItems) urls = urls.slice(0, input.maxItems)
LimitUrls(inp, us) ==
    IF "maxItems" \in inp.given /\ inp.maxItems # 0
      THEN Slice(us, inp.maxItems) ELSE us

\* crawler.addRequests(urls): one request for each URL, a URL listed twice
\* giving one request
RECURSIVE Distinct(_)
Distinct(us) ==
    IF us = <<>> THEN <<>>
    ELSE LET rest == Distinct(SubSeq(us, 1, Len(us) - 1))
             last == us[Len(us)] IN
         IF \E j \in 1..Len(rest) : rest[j] = last THEN rest
         ELSE Append(rest, last)

BasicScraperInputs ==
    {NoInput}
        \cup {[given |-> {"sitemapUrl"}]}
        \cup {[given |-> {"sitemapUrl", "urlPattern"}, urlPattern |-> p]
                : p \in {"", "products", "items"}}
        \cup {[given |-> {"sitemapUrl", "maxItems"}, maxItems |-> m]
                : m \in 0..MaxItems}
        \cup {[given |-> {"sitemapUrl", "urlPattern", "maxItems"},
               urlPattern |-> p, maxItems |-> m]
                : p \in {"", "products", "items"}, m \in 0..MaxItems}

InitBasicScraper ==
    /\ FallbackIdle
    /\ limits \in {[maxRequestRetries |-> m] : m \in 0..MaxRetries}
    /\ pc = "bs_main"
    /\ input \in BasicScraperInputs
    /\ sessions = <<>> /\ requests = <<>>
    /\ Dataset = EmptyBag
    /\ env = << >> /\ urls = <<>> /\ ids = <<>>
    /\ queue = <<>> /\ inflight = {}
    /\ successCount = 0 /\ errorCount = 0 /\ log = <<>>
    /\ limitedIds = <<>> /\ iter = 0 /\ retryCount = 0

basicScraperUnused == <<fallbackVars, ids, inflight, sessions, successCount,
                        errorCount, log, limitedIds, iter, retryCount>>

\* Actor.main: the input is read and checked.
BasicScraperMain ==
    /\ pc = "bs_main"
    /\ pc' = IF "sitemapUrl" \in input.given THEN "bs_sitemap" ELSE "bs_thrown"
    /\ UNCHANGED <<input, env, urls, queue, requests, Dataset, basicScraperUnused>>

\* The sitemap is read (or the read fails); its URLs are filtered, then
\* limited, handed to crawler.addRequests, and crawler.run() is called.
BasicScraperSitemap ==
    /\ pc = "bs_sitemap"
    /\ \E o \in {Thrown} \cup {[ok |-> TRUE, urls |-> l] : l \in ActorSitemaps} :
        /\ env' = Record(<<"sitemap">>, o)
        /\ IF ~o.ok
             THEN /\ pc' = "bs_thrown"
                  /\ UNCHANGED <<urls, queue, requests>>
             ELSE /\ urls' = LimitUrls(input, FilterUrls(input, o.urls))
                  /\ queue' = urls'
                  /\ requests' = [j \in 1..Len(Distinct(urls')) |->
                                    [url |-> Distinct(urls')[j], retryCount |-> 0,
                                     state |-> "queued"]]
                  /\ pc' = "bs_crawl"
    /\ UNCHANGED <<input, Dataset, basicScraperUnused>>

\* The crawler takes a waiting request.
BasicScraperStartRequest ==
    /\ pc = "bs_crawl"
    /\ Cardinality({j \in DOMAIN requests : requests[j].state = "running"})
          < basicScraperMaxConcurrency
    /\ \E r \in DOMAIN requests :
        /\ requests[r].state = "queued"
        /\ requests' = [requests EXCEPT ![r].state = "running"]
    /\ UNCHANGED <<pc, input, env, urls, queue, Dataset, basicScraperUnused>>

\* requestHandler: the page is read and pushed to the Dataset, or an error
\* is logged and thrown again, and the crawler retries or gives up.
BasicScraperRequestHandler ==
    /\ pc = "bs_crawl"
    /\ \E r \in DOMAIN requests : \E o \in {"ok", "throw"} :
        /\ requests[r].state = "running"
        /\ Dataset' = IF o = "ok" THEN pushData(Dataset, [url |-> requests[r].url])
                      ELSE Dataset
        /\ requests' =
             [requests EXCEPT
                ![r].state = IF o = "ok" THEN "done"
                             ELSE IF requests[r].retryCount < limits.maxRequestRetries
                                    THEN "queued" ELSE "failing",
                ![r].retryCount = IF o = "throw" /\ @ < limits.maxRequestRetries
                                    THEN @ + 1 ELSE @]
    /\ UNCHANGED <<pc, input, env, urls, queue, basicScraperUnused>>

\* failedRequestHandler: the failure is logged.
BasicScraperFailedRequestHandler ==
    /\ pc = "bs_crawl"
    /\ \E r \in DOMAIN requests :
        /\ requests[r].state = "failing"
        /\ requests' = [requests EXCEPT ![r].state = "failed"]
    /\ UNCHANGED <<pc, input, env, urls, queue, Dataset, basicScraperUnused>>

\* await crawler.run() settles when every request is handled or given up.
BasicScraperRunEnds ==
    /\ pc = "bs_crawl"
    /\ \A r \in DOMAIN requests : requests[r].state \in {"done", "failed"}
    /\ pc' = "bs_done"
    /\ UNCHANGED <<input, env, urls, queue, requests, Dataset, basicScraperUnused>>

NextBasicScraper ==
    \/ BasicScraperMain
    \/ BasicScraperSitemap
    \/ BasicScraperStartRequest
    \/ BasicScraperRequestHandler
    \/ BasicScraperFailedRequestHandler
    \/ BasicScraperRunEnds

SpecBasicScraper == InitBasicScraper /\ [][NextBasicScraper]_vars

\* The URLs of the sitemap that match the pattern of the input, all of them
\* when it has none.
Matching(inp, us) ==
    IF "urlPattern" \in inp.given
      THEN SelectSeq(us, LAMBDA u : TestUrl(inp.urlPattern, u))
      ELSE us

\* C19 (as claimed): the URLs handed to the crawler are the first maxItems
\* of the sitemap's URLs that match urlPattern, in sitemap order, and all of
\* the matching ones when the input has no maxItems.
C19_FirstMaxItemsOfMatching ==
    pc \in {"bs_crawl", "bs_done"} =>
        LET matching == Matching(input, env[<<"sitemap">>].urls) IN
        queue = IF "maxItems" \in input.given
                  THEN SubSeq(matching, 1, Min(input.maxItems, Len(matching)))
                  ELSE matching

\* ====================================================================
\* SKILL.md: the API-based scraper (main)
\* ====================================================================
productIds == <<123, 456, 789>>
retryLimit == 3

\* What the API answers to one HTTP request; got-scraping sends the request
\* again by itself, up to retry.limit times, after these answers.
Answers == {200, 404, 429, 500}
GotRetries == {429, 500}

InitApiScraper ==
    /\ FallbackIdle
    /\ limits = [calls |-> 0]
    /\ pc = "as_request"
    /\ input = NoInput
    /\ sessions = <<>> /\ requests = <<>>
    /\ Dataset = EmptyBag
    /\ env = << >> /\ urls = <<>> /\ ids = productIds
    /\ queue = <<>> /\ inflight = {}
    /\ successCount = 0 /\ errorCount = 0 /\ log = <<>>
    /\ limitedIds = <<>> /\ iter = 1 /\ retryCount = 0

apiScraperUnused == <<validUrl, limits, call, handled, origin, attempts, failed,
                      calls, ret, prev, input, sessions, requests, Dataset, env,
                      urls, ids, queue, inflight, successCount, errorCount,
                      limitedIds>>

\* The loop after the 5 seconds of the 429 branch: '// Retry this product'
\* is a comment, the for loop takes the next id.
AfterWait(i) == i + 1

\* One HTTP request of gotScraping for the current id. A 200 is pushed to
\* results; a 429 or 500 is sent again by got until its retries are used;
\* the error then thrown, and a 404, go to the catch block.
ApiScraperRequest ==
    /\ pc = "as_request"
    /\ iter <= Len(ids)
    /\ \E a \in Answers :
        /\ log' = Append(log, [id |-> ids[iter], what |-> "request",
                               status |-> a])
        /\ IF a = 200
             THEN /\ results' = Append(results, [id |-> ids[iter]])
                  /\ iter' = iter + 1 /\ retryCount' = 0
                  /\ pc' = pc
             ELSE IF a \in GotRetries /\ retryCount < retryLimit
             THEN /\ retryCount' = retryCount + 1
                  /\ UNCHANGED <<results, iter, pc>>
             ELSE IF a = 429
             THEN /\ pc' = "as_wait"
                  /\ UNCHANGED <<results, iter, retryCount>>
             ELSE /\ iter' = iter + 1 /\ retryCount' = 0
                  /\ UNCHANGED <<results, pc>>
    /\ UNCHANGED apiScraperUnused

\* catch, statusCode === 429: await setTimeout(5000)
ApiScraperWait ==
    /\ pc = "as_wait"
    /\ log' = Append(log, [id |-> ids[iter], what |-> "wait", status |-> 429])
    /\ iter' = AfterWait(iter)
    /\ retryCount' = 0
    /\ pc' = "as_request"
    /\ UNCHANGED <<results, apiScraperUnused>>

\* The loop is over: the results are printed.
ApiScraperDone ==
    /\ pc = "as_request"
    /\ iter > Len(ids)
    /\ pc' = "as_done"
    /\ UNCHANGED <<results, log, iter, retryCount, apiScraperUnused>>

NextApiScraper ==
    \/ ApiScraperRequest
    \/ ApiScraperWait
    \/ ApiScraperDone

SpecApiScraper == InitApiScraper /\ [][NextApiScraper]_vars

\* C20 (as claimed): after the 5 seconds that follow a 429, the next request
\* is for the same product, and there is such a request before the loop is
\* over.
C20_RetriedAfterWait ==
    \A j \in 1..Len(log) :
        log[j].what = "wait" =>
            /\ j < Len(log) => log[j + 1].id = log[j].id
            /\ pc = "as_done" => j < Len(log)

Times(evs, e) == Cardinality({j \in 1..Len(evs) : evs[j] = e})

\* C28: every invocation of requestHandler calls exactly one of markGood
\* and markBad, once: markGood only after the record was pushed, markBad on
\* every path that throws (the blocked path retires the session and marks
\* it bad), and every markBad is followed by the rethrow, after which the
\* crawler runs the request again while it has retries left.
C28_ExactlyOneMark ==
    \A v \in Invocations :
        Ran(v) =>
          LET did == RunOf(v).did IN
          /\ Times(did, "markGood") + Times(did, "markBad") = 1
          /\ Has(did, "markGood") =>
                /\ Has(did, "pushData")
                /\ FirstAt(did, "pushData") < FirstAt(did, "markGood")
                /\ ~Has(did, "throw")
          /\ Has(did, "throw") <=> Has(did, "markBad")
          /\ Has(did, "markBad") =>
                /\ FirstAt(did, "throw") = FirstAt(did, "markBad") + 1
                /\ FirstAt(did, "throw") = Len(did)
                /\ ~Has(did, "pushData")
                /\ IF v[2] <= limits.maxRequestRetries
                     THEN \/ Ran(<<v[1], v[2] + 1>>)
                          \/ requests[v[1]].state \in {"queued", "running"}
                     ELSE requests[v[1]].state \in {"failing", "failed"}
          /\ RunOf(v).blocked =>
                /\ Has(did, "retire") /\ Has(did, "markBad")
                /\ FirstAt(did, "retire") < FirstAt(did, "markBad")

C28_Witness ==
    /\ pc = "ab_done"
    /\ \E r \in DOMAIN requests :
          /\ Len(requests[r].runs) = 3
          /\ requests[r].runs[1].blocked
          /\ Has(requests[r].runs[2].did, "pushDataFails")
          /\ Has(requests[r].runs[3].did, "markGood")
          /\ requests[r].state = "done"

\* ====================================================================
\* scrapeWithFallback: the probe, the fetch loop, the caps, termination
\* ====================================================================
Sampled == ExtractIds(Discovered(1).urls)
FetchesLogged == {j \in 1..Len(log) : log[j].what = "fetch"}

\* C22: the first API request of attempt 1 is the probe, for the first
\* sampled id; every fetch request comes after it and after it succeeded;
\* when the probe fails no fetch request is sent and the attempt fails.
C22_ProbeBeforeExtraction ==
    /\ calls["probe"] + calls["fetch"] = Len(log)
    /\ log # <<>> =>
          /\ log[1].what = "probe"
          /\ Sampled # <<>> => log[1].id = Sampled[1]
          /\ \A j \in 2..Len(log) :
                log[j].what = "fetch" /\ log[1].status = "ok"
          /\ log[1].status = "fail" =>
                /\ calls["fetch"] = 0
                /\ failed # <<>>
                /\ failed[1] = [attempt |-> 1, error |-> "ApiError"]

C22_Witness ==
    /\ pc = "a2_discover"
    /\ log = <<[id |-> 1, what |-> "probe", status |-> "fail"]>>
    /\ Len(Sampled) = SampleCap

\* C23: a fetch that fails is the last request of attempt 1: the attempt
\* fails with it, what was fetched before is dropped, attempt 2 is started
\* and nothing of attempt 1 is in the result of the call; a sitemap-api
\* result holds one record for every sampled id, in their order.
C23_FetchFailureFailsAttempt ==
    /\ \A j \in FetchesLogged :
          log[j].status = "fail" =>
              /\ j = Len(log)
              /\ pc # "a1_fetch" /\ results = <<>>
              /\ failed # <<>>
              /\ failed[1] = [attempt |-> 1, error |-> "ApiError"]
              /\ Len(attempts) >= 2 /\ attempts[2] = 2
              /\ ret.method # "sitemap-api"
              /\ \A e \in BagToSet(ret.from) : e.attempt # 1
    /\ ret.method = "sitemap-api" =>
          /\ Len(ret.data) = Len(Sampled)
          /\ \A j \in 1..Len(Sampled) : ret.data[j] = [id |-> Sampled[j]]

C23_Witness ==
    /\ pc = "done" /\ ret.method = "sitemap-playwright"
    /\ Len(log) = 3
    /\ log[2] = [id |-> 1, what |-> "fetch", status |-> "ok"]
    /\ log[3] = [id |-> 2, what |-> "fetch", status |-> "fail"]

\* The bounds of attempts 1 and 2: one probe, SampleCap fetches and records,
\* and only the first SampleCap discovered URLs rendered.
SampleBounds ==
    /\ calls["probe"] <= 1
    /\ calls["fetch"] <= SampleCap
    /\ ret.method = "sitemap-api" => Len(ret.data) <= SampleCap
    /\ calls["render2"] <= SampleCap
    /\ pc = "a2_crawl" =>
          /\ Len(queue) + Cardinality(inflight) <= SampleCap
          /\ \A j \in 1..Len(queue) :
                \E i \in 1..SampleCap : i <= Len(urls) /\ queue[j] = urls[i]
    /\ Known(<<"discover", 2>>) =>
          \A j \in 1..Len(Discovered(2).urls) :
              j > SampleCap => ~Known(<<"page", 2, Discovered(2).urls[j]>>)

\* C24 (as claimed): attempts 1 and 2 keep to those bounds and the full
\* crawl handles at most maxRequestsPerCrawl requests.
C24_AtMostTenHandled ==
    /\ SampleBounds
    /\ calls["render3"] <= maxRequestsPerCrawl
    /\ pc \in {"a3_crawl", "a3_get"} => handled <= maxRequestsPerCrawl

\* C24 (amended): attempts 1 and 2 keep to those bounds; the full crawl
\* starts no request once maxRequestsPerCrawl requests are finished, so it
\* handles at most that many and the requests that were running with the
\* last of them, fewer than its concurrency.
C24_WorkBounded ==
    /\ SampleBounds
    /\ calls["render3"] <= maxRequestsPerCrawl + MaxParallel - 1
    /\ pc \in {"a3_crawl", "a3_get"} =>
          /\ handled <= maxRequestsPerCrawl + MaxParallel - 1
          /\ handled - Cardinality(inflight) >= maxRequestsPerCrawl =>
                Cardinality(inflight) < MaxParallel

C24_Witness ==
    /\ pc = "a3_get"
    /\ handled = maxRequestsPerCrawl + 1
    /\ calls["probe"] = 1 /\ calls["render2"] = SampleCap

\* C26: when every collaborator call returns or throws, the call ends, by
\* a return or a throw, having started at most three attempts.
C26_Terminates ==
    <>[](/\ pc = "done"
         /\ ret.kind \in {"return", "throw"}
         /\ Len(attempts) <= 3)

C26_Witness ==
    /\ pc = "done"
    /\ ret.kind = "return" /\ ret.method = "playwright-crawl"
    /\ attempts = <<1, 2, 3>>
    /\ calls["render3"] = maxRequestsPerCrawl + 1

\* C29: the Dataset of attempt 2 is read when crawler.run() has settled, no
\* request waiting or running; however the handlers interleaved, the data
\* returned is one record for each of the first SampleCap URLs whose
\* handler completed, and nothing else.
C29_ReadAfterRunCompleted ==
    /\ pc = "a2_get" => queue = <<>> /\ inflight = {}
    /\ ret.method = "sitemap-playwright" =>
          LET us == Slice(Discovered(2).urls, SampleCap) IN
          /\ \A j \in 1..Len(us) :
                CopiesIn([url |-> us[j]], ret.data) =
                    IF Rendered(2, us[j]) THEN 1 ELSE 0
          /\ BagToSet(ret.data) \subseteq {[url |-> us[j]] : j \in 1..Len(us)}

C29_Witness ==
    /\ pc = "done" /\ ret.method = "sitemap-playwright"
    /\ Len(Discovered(2).urls) = MaxUrls
    /\ BagCardinality(ret.data) = SampleCap - 1

\* ====================================================================
\* unnamed/part_006: fetchAllProducts, the paginated API loop
\* ====================================================================
MaxPages == 4        \* pages the API is asked for at most
MaxProducts == 2     \* largest number of products on one page

\* response.body of page p: its products and hasNextPage
PageBodies(p) ==
    {[products |-> [k \in 1..n |-> [page |-> p, item |-> k]],
      hasNextPage |-> h] : n \in 0..MaxProducts, h \in BOOLEAN}

\* hasMore = response.body.hasNextPage
NextHasMoreAlways(body) == TRUE
NextHasMore(body) == body.hasNextPage

\* allProducts.push(...response.body.products)
PushAll(all, products) == all \o products

InitFetchAllProducts ==
    /\ FallbackIdle
    /\ limits = [calls |-> 0]
    /\ pc = "fp_start"
    /\ input = NoInput
    /\ sessions = <<>> /\ requests = <<>>
    /\ Dataset = EmptyBag
    /\ env = << >> /\ urls = <<>> /\ ids = <<>>
    /\ queue = <<>> /\ inflight = {}
    /\ successCount = 0 /\ errorCount = 0 /\ log = <<>>
    /\ limitedIds = <<>> /\ iter = 0 /\ retryCount = 0

fetchAllProductsUnused ==
    <<validUrl, limits, call, handled, origin, attempts, failed, calls, prev,
      input, sessions, requests, Dataset, env, urls, ids, queue, inflight,
      successCount, errorCount, limitedIds, retryCount>>

\* const allProducts = []; let page = 1; let hasMore = true
\* (allProducts is results, page is iter, hasMore is the position fp_loop)
fetchAllProducts ==
    /\ pc = "fp_start"
    /\ results' = <<>> /\ iter' = 1
    /\ pc' = "fp_loop"
    /\ UNCHANGED <<log, ret, fetchAllProductsUnused>>

\* One turn of while (hasMore): the request for the current page, which
\* throws out of the function or answers; then the push, hasMore and page++.
FetchPage ==
    /\ pc = "fp_loop"
    /\ iter <= MaxPages
    /\ \/ /\ log' = Append(log, [page |-> iter, what |-> "throw",
                                 products |-> <<>>, hasNextPage |-> FALSE])
          /\ pc' = "fp_thrown"
          /\ ret' = [NoRet EXCEPT !.kind = "throw", !.error = "RequestError"]
          /\ UNCHANGED <<results, iter>>
       \/ \E body \in PageBodies(iter) :
          /\ log' = Append(log, [page |-> iter, what |-> "response",
                                 products |-> body.products,
                                 hasNextPage |-> body.hasNextPage])
          /\ results' = PushAll(results, body.products)
          /\ iter' = iter + 1
          /\ pc' = IF NextHasMore(body) THEN "fp_loop" ELSE "fp_return"
          /\ UNCHANGED ret
    /\ UNCHANGED fetchAllProductsUnused

\* return allProducts
FetchAllProductsReturn ==
    /\ pc = "fp_return"
    /\ ret' = [NoRet EXCEPT !.kind = "return", !.data = results]
    /\ pc' = "fp_done"
    /\ UNCHANGED <<results, iter, log, fetchAllProductsUnused>>

NextFetchAllProducts ==
    \/ fetchAllProducts
    \/ FetchPage
    \/ FetchAllProductsReturn

SpecFetchAllProducts == InitFetchAllProducts /\ [][NextFetchAllProducts]_vars

\* The products of the first n logged responses, in page order.
RECURSIVE ProductsUpTo(_)
ProductsUpTo(n) ==
    IF n = 0 THEN <<>> ELSE ProductsUpTo(n - 1) \o log[n].products

\* C27: the requests are for pages 1, 2, 3, ... in order, one each; none
\* follows a response with hasNextPage false or a request that threw; the
\* loop goes on exactly while every response had hasNextPage true, returns
\* exactly after a response with hasNextPage false, and what it returns is
\* the products of the fetched pages in page order.
C27_PagesInOrderUntilLast ==
    LET n == Len(log) IN
    /\ \A j \in 1..n : log[j].page = j
    /\ \A j \in 1..(n - 1) : log[j].what = "response" /\ log[j].hasNextPage
    /\ pc = "fp_loop" <=>
          /\ iter = n + 1
          /\ n > 0 => log[n].what = "response" /\ log[n].hasNextPage
    /\ pc \in {"fp_return", "fp_done"} <=>
          n > 0 /\ log[n].what = "response" /\ ~log[n].hasNextPage
    /\ pc = "fp_thrown" <=> n > 0 /\ log[n].what = "throw"
    /\ pc = "fp_thrown" => ret.kind = "throw"
    /\ pc # "fp_start" => results = ProductsUpTo(IF pc = "fp_thrown" THEN n - 1 ELSE n)
    /\ pc = "fp_done" => ret.kind = "return" /\ ret.data = ProductsUpTo(n)
    /\ pc \notin {"fp_done", "fp_thrown"} => ret = NoRet

C27_Witness ==
    /\ pc = "fp_done"
    /\ Len(log) = 3
    /\ Len(ret.data) = 3
    /\ ret.data[1].page = 1 /\ ret.data[2].page = 3 /\ ret.data[3].page = 3

\* ====================================================================
\* strategies/hybrid-approaches.md, Pattern 5: scrapeHybrid
\* ====================================================================
MaxHybridUrls == 3   \* longest list of URLs handed to scrapeHybrid

cheerioMaxConcurrency == 30

\* The lists scrapeHybrid is called with.
HybridUrlLists ==
    {us \in UNION {[1..n -> {ProductUrl(i) : i \in 1..MaxHybridUrls}]
                      : n \in 1..MaxHybridUrls} :
        \A i, j \in 1..Len(us) : us[i] = us[j] => i = j}

\* What the request of one URL meets: $('h1').text() is a title or the
\* empty string, or the page cannot be fetched and the request is given up.
CheerioRuns == {"title", "noTitle", "fails"}

InitHybrid ==
    /\ FallbackIdle
    /\ limits = [calls |-> 0]
    /\ pc = "hy_start"
    /\ input = NoInput
    /\ urls \in HybridUrlLists
    /\ sessions = <<>> /\ requests = <<>>
    /\ Dataset = EmptyBag
    /\ env = << >> /\ ids = <<>>
    /\ queue = <<>> /\ inflight = {}
    /\ successCount = 0 /\ errorCount = 0 /\ log = <<>>
    /\ limitedIds = <<>> /\ iter = 0 /\ retryCount = 0

hybridUnused ==
    <<validUrl, limits, call, results, handled, origin, attempts, failed, calls,
      ret, prev, input, sessions, env, urls, ids, queue, inflight, successCount,
      errorCount, log, limitedIds, iter, retryCount>>

HybridRequest(crawler, url) == [crawler |-> crawler, url |-> url, state |-> "queued"]

\* scrapeHybrid(urls): both crawlers are constructed and the one statement
\* that runs a crawler, await cheerioCrawler.run(urls), takes the URLs.
scrapeHybrid ==
    /\ pc = "hy_start"
    /\ requests' = [j \in 1..Len(urls) |-> HybridRequest("cheerio", urls[j])]
    /\ pc' = "hy_cheerio"
    /\ UNCHANGED <<Dataset, hybridUnused>>

\* The Cheerio crawler takes a request of its own from the queue.
CheerioStartRequest ==
    /\ pc = "hy_cheerio"
    /\ Cardinality({j \in DOMAIN requests : requests[j].state = "running"})
          < cheerioMaxConcurrency
    /\ \E r \in DOMAIN requests :
        /\ requests[r].crawler = "cheerio" /\ requests[r].state = "queued"
        /\ requests' = [requests EXCEPT ![r].state = "running"]
    /\ UNCHANGED <<pc, Dataset, hybridUnused>>

\* requestHandler of cheerioCrawler: without a title the URL is added to
\* playwrightCrawler and the handler returns; with one the record is pushed.
CheerioRequestHandler ==
    /\ pc = "hy_cheerio"
    /\ \E r \in DOMAIN requests : \E run \in CheerioRuns :
        /\ requests[r].crawler = "cheerio" /\ requests[r].state = "running"
        /\ requests' =
             LET ended == [requests EXCEPT ![r].state =
                              IF run = "fails" THEN "failed" ELSE run] IN
             IF run = "noTitle"
               THEN Append(ended, HybridRequest("playwright", requests[r].url))
               ELSE ended
        /\ Dataset' = IF run = "title"
                        THEN pushData(Dataset, [url |-> requests[r].url])
                        ELSE Dataset
    /\ UNCHANGED <<pc, hybridUnused>>

\* await cheerioCrawler.run(urls) settles and scrapeHybrid returns: it has
\* no further statement.
CheerioRunEnds ==
    /\ pc = "hy_cheerio"
    /\ \A r \in DOMAIN requests :
          requests[r].crawler = "cheerio"
              => requests[r].state \notin {"queued", "running"}
    /\ pc' = "hy_done"
    /\ UNCHANGED <<requests, Dataset, hybridUnused>>

\* requestHandler of playwrightCrawler. It is a step of a running
\* playwrightCrawler only, and scrapeHybrid has no playwrightCrawler.run():
\* no position of scrapeHybrid enables it, and it is no step of NextHybrid.
PlaywrightRequestHandler ==
    /\ pc = "hy_playwright"
    /\ \E r \in DOMAIN requests :
        /\ requests[r].crawler = "playwright" /\ requests[r].state = "queued"
        /\ requests' = [requests EXCEPT ![r].state = "title"]
        /\ Dataset' = pushData(Dataset, [url |-> requests[r].url])
    /\ UNCHANGED <<pc, hybridUnused>>

NextHybrid ==
    \/ scrapeHybrid
    \/ CheerioStartRequest
    \/ CheerioRequestHandler
    \/ CheerioRunEnds

SpecHybrid == InitHybrid /\ [][NextHybrid]_vars

\* C21 (as claimed): every URL handed to scrapeHybrid yields a Dataset
\* record, pushed by the Cheerio handler when the page has a title and by
\* the Playwright crawler when it has none: once scrapeHybrid has returned,
\* every URL whose page was fetched has its record, and no request handed
\* to the Playwright crawler is still waiting.
C21_EveryUrlYieldsRecord ==
    pc = "hy_done" =>
        /\ \A r \in DOMAIN requests :
              (requests[r].crawler = "cheerio" /\ requests[r].state # "failed")
                  => [url |-> requests[r].url] \in BagToSet(Dataset)
        /\ \A r \in DOMAIN requests :
              requests[r].crawler = "playwright" => requests[r].state # "queued"
====
